---- MODULE Spec2Model ----
(***************************************************************************)
(* getEigenValues (2013-01-18-gsl-for-eigenvalues.cpp): a matrix of the    *)
(* calling environment is staged into a GSL matrix, gsl_eigen_symm is run  *)
(* on the staged copy, the eigenvalue vector is copied into a fresh R      *)
(* vector and the GSL objects are freed by hand.                           *)
(*                                                                         *)
(* The model is one memory of blocks (GSL objects and R objects alike),    *)
(* and one program counter per invocation, labelled by source line.  The   *)
(* GSL primitives are modelled by their documented behaviour: an           *)
(* allocation either succeeds or raises a GSL error; a GSL error calls the *)
(* installed error handler, which aborts the process (the GSL default) or  *)
(* has been turned off by the host session, in which case the primitive    *)
(* returns a null pointer / an error status to its caller.                 *)
(***************************************************************************)
EXTENDS Integers, Sequences, FiniteSets, TLC

MaxDim   == 2     \* largest matrix dimension passed in
MaxVal   == 2     \* matrix entries range over 1..MaxVal
HeapSize == 7     \* number of memory blocks
MaxCalls == 2     \* calls of getEigenValues started in a run with one caller

Threads == {1, 2}          \* concurrent callers
Values  == 1..MaxVal
Addr    == 1..HeapSize
NULL    == 0

VARIABLES
    callers,   \* the threads of the session that call getEigenValues
    handler,   \* the GSL error handler of the process: "abort" or "off"
    heap,      \* memory: Addr -> block
    pc,        \* per caller: position in getEigenValues
    input,     \* per caller: the value of the argument at the call
    sM,        \* per caller: address of the caller's matrix
    M,         \* per caller: RcppGSL::matrix<double> M (address or NULL)
    k,         \* per caller: int k
    ev,        \* per caller: RcppGSL::vector<double> ev
    w,         \* per caller: gsl_eigen_symm_workspace *w
    res,       \* per caller: Rcpp::NumericVector res
    status,    \* per caller: the value returned by gsl_eigen_symm (line 35)
    prev,      \* argument and result of the first call that returned
    budget     \* calls that may still be started

vars == <<callers, handler, heap, pc, input, sM, M, k, ev, w, res, status, prev, budget>>

-----------------------------------------------------------------------------
(* Matrices are sequences of rows.                                         *)

nrow(A) == Len(A)
ncol(A) == IF Len(A) = 0 THEN 0 ELSE Len(A[1])

Sym(n, d, o) == [i \in 1..n |-> [j \in 1..n |-> IF i = j THEN d ELSE o]]
Rect(r, c, v) == [i \in 1..r |-> [j \in 1..c |-> v]]
Zeros(n) == [i \in 1..n |-> 0]

\* The arguments getEigenValues is called with: symmetric matrices with a
\* constant diagonal d and a constant off-diagonal o (0: a diagonal matrix),
\* and non-square matrices (which the function does not reject).
SymInputs  == {Sym(n, d, o) : n \in 1..MaxDim, d \in Values, o \in 0..1}
RectInputs == {Rect(r, c, 1) : r \in 1..MaxDim, c \in 1..MaxDim} \ SymInputs
Inputs     == SymInputs \cup RectInputs

\* Runs with two concurrent callers draw their arguments from one symmetric
\* matrix per dimension and one non-square matrix.
ConcInputs == {Sym(n, 2, 1) : n \in 1..MaxDim} \cup {Rect(1, MaxDim, 1)}

IsSquare(A) == nrow(A) = ncol(A)

\* Eigenvalues of a symmetric matrix with constant diagonal d and constant
\* off-diagonal o (read from the lower triangle, as gsl_eigen_symm does):
\* d + (n-1) o once and d - o with multiplicity n-1.
Eigenvalues(A) ==
    LET n == nrow(A)
        d == A[1][1]
        o == IF n > 1 THEN A[2][1] ELSE 0
    IN  [i \in 1..n |-> IF i = 1 THEN d + (n - 1) * o ELSE d - o]

\* gsl_eigen_symm destroys the diagonal and the lower triangle of its matrix.
Destroyed(A) ==
    [i \in 1..nrow(A) |-> [j \in 1..ncol(A) |-> IF j <= i THEN 0 ELSE A[i][j]]]

-----------------------------------------------------------------------------
(* Memory.                                                                 *)

NoBlock == [live |-> FALSE, kind |-> "none", by |-> 0, data |-> <<>>]
Block(kind, t, data) == [live |-> TRUE, kind |-> kind, by |-> t, data |-> data]

FreeAddrs(h) == {a \in Addr : ~h[a].live}
\* The allocator hands out the lowest free block; NULL when memory is exhausted.
FreshAddr(h) ==
    IF FreeAddrs(h) = {} THEN NULL
    ELSE CHOOSE a \in FreeAddrs(h) : \A b \in FreeAddrs(h) : a <= b

\* A freed block holds nothing a program may rely on.
Release(h, a) == IF a = NULL THEN h ELSE [h EXCEPT ![a] = NoBlock]

Running == \A u \in Threads : pc[u] \notin {"abort", "segv"}

-----------------------------------------------------------------------------
(* The expressions of getEigenValues.                                      *)

\* Line 30, RcppGSL::matrix<double> M(sM): a new GSL matrix, not a view of sM,
\* filled element by element from sM.
MatrixTargetView(src, fresh) == src
MatrixTarget(src, fresh) == fresh
MatrixCopyUnfilled(A) == [i \in 1..nrow(A) |-> [j \in 1..ncol(A) |-> 0]]
MatrixCopy(A) == [i \in 1..nrow(A) |-> [j \in 1..ncol(A) |-> A[i][j]]]

\* Line 31, int k = M.ncol().
Dimension(A) == ncol(A)

\* Line 33, ev(k), and line 34, gsl_eigen_symm_alloc(k).
EvLengthOffByOne(n) == n + 1
EvLength(n) == n
WorkspaceSize(n) == n

\* Line 35, the arguments of gsl_eigen_symm (M, ev, w).
RoutineMatrixShared(t) ==
    IF M[1] # NULL /\ heap[M[1]].live /\ heap[M[1]].kind = "gsl_matrix" THEN M[1] ELSE M[t]
RoutineMatrix(t) == M[t]
RoutineEval(t) == ev[t]
RoutineWorkShared(t) ==
    IF w[1] # NULL /\ heap[w[1]].live /\ heap[w[1]].kind = "workspace" THEN w[1] ELSE w[t]
RoutineWork(t) == w[t]

\* Line 40, Rcpp::NumericVector res(Rcpp::wrap(ev)): a new R vector holding a
\* copy of the elements of ev.
WrapTargetView(e, fresh) == e
WrapTarget(e, fresh) == fresh
WrapCopy(v) == [i \in 1..Len(v) |-> v[i]]

\* The statements of the function body in program order.
AfterFreeFirst(l) ==
    CASE l = "L30" -> "L33"
      [] l = "L33" -> "L34"
      [] l = "L34" -> "L35"
      [] l = "L35" -> "L36"
      [] l = "L36" -> "L42"
      [] l = "L42" -> "L43"
      [] l = "L43" -> "L40"
      [] l = "L40" -> "L45"
      [] l = "L45" -> "returned"
After(l) ==
    CASE l = "L30" -> "L33"
      [] l = "L33" -> "L34"
      [] l = "L34" -> "L35"
      [] l = "L35" -> "L36"
      [] l = "L36" -> "L40"
      [] l = "L40" -> "L42"
      [] l = "L42" -> "L43"
      [] l = "L43" -> "L45"
      [] l = "L45" -> "returned"

\* A GSL error raised at a statement: the default handler aborts the process;
\* with the handler off the primitive returns and the function goes on.
OnGslError(l) == IF handler = "abort" THEN "abort" ELSE After(l)

\* The arguments the callers of a run pass.
Domain == IF callers = Threads THEN ConcInputs ELSE Inputs

-----------------------------------------------------------------------------
Init ==
    /\ callers \in {{1}, Threads}
    /\ handler \in {"abort", "off"}
    /\ heap = [a \in Addr |-> NoBlock]
    /\ pc = [t \in Threads |-> "idle"]
    /\ input = [t \in Threads |-> <<>>]
    /\ sM = [t \in Threads |-> NULL]
    /\ M = [t \in Threads |-> NULL]
    /\ k = [t \in Threads |-> 0]
    /\ ev = [t \in Threads |-> NULL]
    /\ w = [t \in Threads |-> NULL]
    /\ res = [t \in Threads |-> NULL]
    /\ status = [t \in Threads |-> "none"]
    /\ prev = [in |-> <<>>, out |-> <<>>]
    /\ budget = IF callers = Threads THEN Cardinality(Threads) ELSE MaxCalls

\* R, line 58: getEigenValues(Z) is called with a matrix of the session.
Call(t, A) ==
    /\ Running
    /\ t \in callers
    /\ A \in Domain
    /\ pc[t] = "idle"
    /\ budget > 0
    /\ FreshAddr(heap) # NULL
    /\ LET f == FreshAddr(heap) IN
        /\ heap' = [heap EXCEPT ![f] = Block("R_matrix", t, A)]
        /\ sM' = [sM EXCEPT ![t] = f]
    /\ input' = [input EXCEPT ![t] = A]
    /\ pc' = [pc EXCEPT ![t] = "L30"]
    /\ budget' = budget - 1
    /\ UNCHANGED <<callers, handler, M, k, ev, w, res, status, prev>>

\* Lines 30-31: the GSL matrix is allocated and filled, k is its column count.
StageOk(t) ==
    /\ Running
    /\ pc[t] = "L30"
    /\ FreshAddr(heap) # NULL
    /\ LET m == MatrixTarget(sM[t], FreshAddr(heap))
           A == MatrixCopy(heap[sM[t]].data)
       IN  /\ heap' = [heap EXCEPT ![m] = Block("gsl_matrix", t, A)]
           /\ M' = [M EXCEPT ![t] = m]
           /\ k' = [k EXCEPT ![t] = Dimension(A)]
    /\ pc' = [pc EXCEPT ![t] = After("L30")]
    /\ UNCHANGED <<callers, handler, input, sM, ev, w, res, status, prev, budget>>

\* gsl_matrix_alloc fails: the handler aborts, or the constructor fills a
\* null matrix.
StageFail(t) ==
    /\ Running
    /\ pc[t] = "L30"
    /\ pc' = [pc EXCEPT ![t] = IF handler = "abort" THEN "abort" ELSE "segv"]
    /\ UNCHANGED <<callers, handler, heap, input, sM, M, k, ev, w, res, status, prev, budget>>

\* Line 33: the eigenvalue vector; RcppGSL allocates it with gsl_vector_calloc,
\* so it starts zero-filled.
AllocEvOk(t) ==
    /\ Running
    /\ pc[t] = "L33"
    /\ FreshAddr(heap) # NULL
    /\ LET f == FreshAddr(heap) IN
        /\ heap' = [heap EXCEPT ![f] = Block("gsl_vector", t, Zeros(EvLength(k[t])))]
        /\ ev' = [ev EXCEPT ![t] = f]
    /\ pc' = [pc EXCEPT ![t] = After("L33")]
    /\ UNCHANGED <<callers, handler, input, sM, M, k, w, res, status, prev, budget>>

AllocEvFail(t) ==
    /\ Running
    /\ pc[t] = "L33"
    /\ ev' = [ev EXCEPT ![t] = NULL]
    /\ pc' = [pc EXCEPT ![t] = OnGslError("L33")]
    /\ UNCHANGED <<callers, handler, heap, input, sM, M, k, w, res, status, prev, budget>>

\* Line 34: the workspace.
AllocWOk(t) ==
    /\ Running
    /\ pc[t] = "L34"
    /\ FreshAddr(heap) # NULL
    /\ LET f == FreshAddr(heap) IN
        /\ heap' = [heap EXCEPT ![f] = Block("workspace", t, Zeros(WorkspaceSize(k[t])))]
        /\ w' = [w EXCEPT ![t] = f]
    /\ pc' = [pc EXCEPT ![t] = After("L34")]
    /\ UNCHANGED <<callers, handler, input, sM, M, k, ev, res, status, prev, budget>>

AllocWFail(t) ==
    /\ Running
    /\ pc[t] = "L34"
    /\ w' = [w EXCEPT ![t] = NULL]
    /\ pc' = [pc EXCEPT ![t] = OnGslError("L34")]
    /\ UNCHANGED <<callers, handler, heap, input, sM, M, k, ev, res, status, prev, budget>>

\* Line 35, gsl_eigen_symm (M, ev, w).  The routine checks, in this order, that
\* the matrix is square, that the eigenvalue vector has its dimension and that
\* the workspace has its dimension; a null vector or workspace is dereferenced
\* by its check.
RoutineOutcome(t) ==
    LET A == heap[RoutineMatrix(t)].data IN
    IF ~IsSquare(A) THEN "GSL_ENOTSQR"
    ELSE IF RoutineEval(t) = NULL THEN "segv"
    ELSE IF Len(heap[RoutineEval(t)].data) # nrow(A) THEN "GSL_EBADLEN"
    ELSE IF RoutineWork(t) = NULL THEN "segv"
    ELSE IF Len(heap[RoutineWork(t)].data) # nrow(A) THEN "GSL_EBADLEN"
    ELSE "GSL_SUCCESS"

RoutineArgs(t) == {RoutineMatrix(t), RoutineEval(t), RoutineWork(t)}

\* The routine succeeds: the eigenvalues are written into ev, the staged
\* matrix is destroyed and the workspace is used as scratch.
RoutineOk(t) ==
    /\ Running
    /\ pc[t] = "L35"
    /\ RoutineOutcome(t) = "GSL_SUCCESS"
    /\ LET A == heap[RoutineMatrix(t)].data IN
        heap' = [heap EXCEPT ![RoutineMatrix(t)].data = Destroyed(A),
                             ![RoutineEval(t)].data = Eigenvalues(A),
                             ![RoutineWork(t)].data = [i \in 1..nrow(A) |-> A[i][i]]]
    /\ status' = [status EXCEPT ![t] = "GSL_SUCCESS"]
    /\ pc' = [pc EXCEPT ![t] = After("L35")]
    /\ UNCHANGED <<callers, handler, input, sM, M, k, ev, w, res, prev, budget>>

\* The routine raises a GSL error: nothing is computed; the status it returns
\* when the handler is off is discarded by line 35.
RoutineError(t) ==
    /\ Running
    /\ pc[t] = "L35"
    /\ RoutineOutcome(t) \in {"GSL_ENOTSQR", "GSL_EBADLEN"}
    /\ status' = [status EXCEPT ![t] = RoutineOutcome(t)]
    /\ pc' = [pc EXCEPT ![t] = OnGslError("L35")]
    /\ UNCHANGED <<callers, handler, heap, input, sM, M, k, ev, w, res, prev, budget>>

\* The routine is handed a null pointer.
RoutineSegv(t) ==
    /\ Running
    /\ pc[t] = "L35"
    /\ RoutineOutcome(t) = "segv"
    /\ pc' = [pc EXCEPT ![t] = "segv"]
    /\ UNCHANGED <<callers, handler, heap, input, sM, M, k, ev, w, res, status, prev, budget>>

\* Line 36, gsl_eigen_symm_free (w); a null workspace is ignored.
FreeW(t) ==
    /\ Running
    /\ pc[t] = "L36"
    /\ heap' = Release(heap, w[t])
    /\ pc' = [pc EXCEPT ![t] = After("L36")]
    /\ UNCHANGED <<callers, handler, input, sM, M, k, ev, w, res, status, prev, budget>>

\* Line 40: the elements of ev are copied into a new R vector.
WrapOk(t) ==
    /\ Running
    /\ pc[t] = "L40"
    /\ ev[t] # NULL
    /\ FreshAddr(heap) # NULL
    /\ LET r == WrapTarget(ev[t], FreshAddr(heap)) IN
        /\ heap' = [heap EXCEPT ![r] = Block("R_vector", t, WrapCopy(heap[ev[t]].data))]
        /\ res' = [res EXCEPT ![t] = r]
    /\ pc' = [pc EXCEPT ![t] = After("L40")]
    /\ UNCHANGED <<callers, handler, input, sM, M, k, ev, w, status, prev, budget>>

\* The R vector cannot be allocated: the R error leaves getEigenValues at
\* line 40, past neither M.free() nor ev.free().
WrapFail(t) ==
    /\ Running
    /\ pc[t] = "L40"
    /\ ev[t] # NULL
    /\ pc' = [pc EXCEPT ![t] = "failed"]
    /\ UNCHANGED <<callers, handler, heap, input, sM, M, k, ev, w, res, status, prev, budget>>

\* wrap() of a null vector.
WrapSegv(t) ==
    /\ Running
    /\ pc[t] = "L40"
    /\ ev[t] = NULL
    /\ pc' = [pc EXCEPT ![t] = "segv"]
    /\ UNCHANGED <<callers, handler, heap, input, sM, M, k, ev, w, res, status, prev, budget>>

\* Line 42, M.free().
FreeM(t) ==
    /\ Running
    /\ pc[t] = "L42"
    /\ heap' = Release(heap, M[t])
    /\ pc' = [pc EXCEPT ![t] = After("L42")]
    /\ UNCHANGED <<callers, handler, input, sM, M, k, ev, w, res, status, prev, budget>>

\* Line 43, ev.free().
FreeEv(t) ==
    /\ Running
    /\ pc[t] = "L43"
    /\ heap' = Release(heap, ev[t])
    /\ pc' = [pc EXCEPT ![t] = After("L43")]
    /\ UNCHANGED <<callers, handler, input, sM, M, k, ev, w, res, status, prev, budget>>

\* Line 45, return res.
Return(t) ==
    /\ Running
    /\ pc[t] = "L45"
    /\ pc' = [pc EXCEPT ![t] = After("L45")]
    /\ UNCHANGED <<callers, handler, heap, input, sM, M, k, ev, w, res, status, prev, budget>>

\* The caller has the result (or the error) and goes on: the R objects of the
\* call are garbage, the locals of the invocation are gone.  GSL blocks that
\* were not freed stay allocated.
Collect(t) ==
    /\ Running
    /\ pc[t] \in {"returned", "failed"}
    /\ prev' = IF pc[t] = "returned" /\ prev.in = <<>>
               THEN [in |-> input[t], out |-> heap[res[t]].data]
               ELSE prev
    /\ heap' = Release(Release(heap, sM[t]), res[t])
    /\ pc' = [pc EXCEPT ![t] = "idle"]
    /\ input' = [input EXCEPT ![t] = <<>>]
    /\ sM' = [sM EXCEPT ![t] = NULL]
    /\ M' = [M EXCEPT ![t] = NULL]
    /\ k' = [k EXCEPT ![t] = 0]
    /\ ev' = [ev EXCEPT ![t] = NULL]
    /\ w' = [w EXCEPT ![t] = NULL]
    /\ res' = [res EXCEPT ![t] = NULL]
    /\ status' = [status EXCEPT ![t] = "none"]
    /\ UNCHANGED <<callers, handler, budget>>

Next ==
    \E t \in Threads :
        \/ \E A \in Inputs : Call(t, A)
        \/ StageOk(t)
        \/ StageFail(t)
        \/ AllocEvOk(t)
        \/ AllocEvFail(t)
        \/ AllocWOk(t)
        \/ AllocWFail(t)
        \/ RoutineOk(t)
        \/ RoutineError(t)
        \/ RoutineSegv(t)
        \/ FreeW(t)
        \/ WrapOk(t)
        \/ WrapFail(t)
        \/ WrapSegv(t)
        \/ FreeM(t)
        \/ FreeEv(t)
        \/ Return(t)
        \/ Collect(t)

Spec == Init /\ [][Next]_vars

-----------------------------------------------------------------------------
(* Properties.                                                             *)

\* Block a is allocated, of the given kind, and was acquired by caller t.
IsOwn(t, a, kind) ==
    /\ a # NULL
    /\ heap[a].live
    /\ heap[a].kind = kind
    /\ heap[a].by = t

Success(t) == status[t] = "GSL_SUCCESS"

\* The blocks the statement at pc[t] works on.
Operands(t) ==
    CASE pc[t] = "L30" -> {sM[t]}
      [] pc[t] = "L35" -> RoutineArgs(t)
      [] pc[t] = "L36" -> {w[t]}
      [] pc[t] = "L40" -> {ev[t]}
      [] pc[t] = "L42" -> {M[t]}
      [] pc[t] = "L43" -> {ev[t]}
      [] pc[t] \in {"L45", "returned", "failed"} -> {sM[t], res[t]}
      [] OTHER -> {}

\* C1: after any call, returned or failed, none of the GSL objects acquired by
\* the call (staged matrix M, eigenvalue vector ev, workspace w) is allocated.
C1_NoResourceOutlivesCall ==
    \A t \in Threads :
        pc[t] \in {"returned", "failed"} =>
            /\ ~IsOwn(t, M[t], "gsl_matrix")
            /\ ~IsOwn(t, ev[t], "gsl_vector")
            /\ ~IsOwn(t, w[t], "workspace")

\* C2: k is the column count of the staged matrix, the eigenvalue vector and
\* the workspace are sized by k, and a call with a symmetric k x k argument
\* that returns, returns exactly k values.
C2_ResultHasDimensionLength ==
    \A t \in Threads :
        /\ pc[t] \in {"L33", "L34", "L35"} => k[t] = ncol(heap[M[t]].data)
        /\ pc[t] \in {"L34", "L35", "L36"} /\ ev[t] # NULL =>
               Len(heap[ev[t]].data) = k[t]
        /\ pc[t] \in {"L35", "L36"} /\ w[t] # NULL =>
               Len(heap[w[t]].data) = k[t]
        /\ pc[t] = "returned" /\ input[t] \in SymInputs =>
               /\ k[t] = nrow(input[t])
               /\ Len(heap[res[t]].data) = nrow(input[t])

C2_Witness ==
    \E t \in Threads :
        /\ pc[t] = "returned"
        /\ input[t] \in SymInputs
        /\ nrow(input[t]) = MaxDim
        /\ Len(heap[res[t]].data) = MaxDim

\* C3: from the call until the caller has its answer, the caller's matrix is
\* allocated and every element has the value it had at the call.
C3_InputUnchanged ==
    \A t \in Threads :
        sM[t] # NULL =>
            /\ IsOwn(t, sM[t], "R_matrix")
            /\ heap[sM[t]].data = input[t]

\* The routine has run and overwritten the staged copy.
C3_Witness ==
    \E t \in Threads :
        /\ pc[t] = "L36"
        /\ Success(t)
        /\ heap[M[t]].data # input[t]
        /\ heap[sM[t]].data = input[t]

\* C4: res is a block of its own, never the block of ev; it is made while ev
\* is allocated, and from then on (also once ev is freed) it holds the values
\* the routine wrote into ev.
C4_ResultIsIndependentCopy ==
    \A t \in Threads :
        /\ res[t] # NULL =>
            /\ res[t] # ev[t]
            /\ IsOwn(t, res[t], "R_vector")
            /\ Success(t) => heap[res[t]].data = Eigenvalues(input[t])
        /\ pc[t] = "L42" =>
            /\ IsOwn(t, ev[t], "gsl_vector")
            /\ heap[res[t]].data = heap[ev[t]].data

C4_Witness ==
    \E t \in Threads :
        /\ pc[t] = "returned"
        /\ Success(t)
        /\ nrow(input[t]) = MaxDim
        /\ ~heap[ev[t]].live
        /\ heap[res[t]].data = Eigenvalues(input[t])

\* C5: when the eigenvalue routine fails, no result is returned to the caller.
C5_NoResultOnFailure ==
    \A t \in Threads : pc[t] = "returned" => Success(t)

\* C6: a step of one invocation leaves every block of another invocation as it
\* is and works only on blocks the invocation acquired itself; the result of
\* an invocation is the eigenvalues of its own argument.
C6_InvocationsIsolated ==
    /\ [][\A t \in Threads :
            pc'[t] # pc[t] =>
                /\ \A a \in Addr :
                       heap[a].live /\ heap[a].by # t => heap'[a] = heap[a]
                /\ \A a \in Operands(t) \ {NULL} :
                       heap[a].live => heap[a].by = t]_vars
    /\ [](\A t \in Threads :
            pc[t] = "returned" /\ Success(t) =>
                heap[res[t]].data = Eigenvalues(input[t]))

\* Two invocations overlap: both have run the routine and hold GSL objects.
C6_Witness ==
    /\ pc[1] = "L43" /\ Success(1)
    /\ pc[2] = "L36" /\ Success(2)
    /\ IsOwn(1, ev[1], "gsl_vector")
    /\ IsOwn(2, w[2], "workspace")

\* C7: for the 1 x 1 argument [[c]] the result is the sequence [c].
C7_OneByOne ==
    \A t \in Threads :
        pc[t] = "returned" /\ nrow(input[t]) = 1 /\ ncol(input[t]) = 1 =>
            heap[res[t]].data = <<input[t][1][1]>>

C7_Witness ==
    \E t \in Threads :
        /\ pc[t] = "returned"
        /\ input[t] = Sym(1, MaxVal, 0)
        /\ heap[res[t]].data = <<MaxVal>>

C10_NoUseAfterRelease ==
    [][\A t \in Threads :
          pc'[t] # pc[t] =>
              /\ pc[t] = "L35" =>
                    \A a \in RoutineArgs(t) \ {NULL} : heap[a].live /\ heap[a].by = t
              /\ pc[t] = "L36" /\ w[t] # NULL => IsOwn(t, w[t], "workspace")
              /\ pc[t] = "L40" /\ ev[t] # NULL => IsOwn(t, ev[t], "gsl_vector")
              /\ pc[t] = "L42" => IsOwn(t, M[t], "gsl_matrix")
              /\ pc[t] = "L43" => IsOwn(t, ev[t], "gsl_vector")]_vars

\* All three objects have been released, each by its own statement.
C10_Witness ==
    \E t \in Threads :
        /\ pc[t] = "L45"
        /\ Success(t)
        /\ ~heap[M[t]].live
        /\ ~heap[ev[t]].live
        /\ ~heap[w[t]].live

====
